---- MODULE Spec2Model ----
(***************************************************************************)
(* RexAI: a NEAT-driven endless-runner trainer.                            *)
(*                                                                         *)
(* The module models the code of the repository:                           *)
(*   src/main.py                    main (setup, run, final save)          *)
(*   src/game/dino_game.py          main / run_dino_game_generation        *)
(*   src/controllers/ai_controller  AIController                           *)
(*   src/utils/training_manager.py  TrainingManager                        *)
(*   ai/networks/network.py         DinoNetwork                            *)
(*   src/game/dino.py               Dino                                   *)
(*                                                                         *)
(* The evolutionary core (reproduction, speciation, stagnation) is the     *)
(* third-party package `neat`; the repository only calls                   *)
(* neat.Population.run.  Its effect between two evaluations is kept as a   *)
(* nondeterministic step (LibNextGeneration).                              *)
(*                                                                         *)
(* Units: the clock counts frames of the game loop; a fitness is the death *)
(* time in clock units (the code divides milliseconds by 1000.0, a         *)
(* monotone change of unit).                                               *)
(***************************************************************************)
EXTENDS Integers, FiniteSets, Sequences, TLC

\* ------------------------------------------------------------------ bounds
PopSize == 2          \* pop_size of the NEAT configuration
MaxGenerations == 2   \* training_manager.generations (--generations)
MaxClock == 3         \* last clock value; every living dino collides there
MaxBadFields == 1     \* malformed fields in one sensor_data dictionary
MaxResets == 1        \* calls of AIController.reset by one caller
ShortSprite == 30     \* height of the lower sprite images, in pixels
TallSprite == 47      \* height of the higher sprite images, in pixels

\* ------------------------------------------------------- program constants
CheckpointEvery == 10 \* generation_count % 10 == 0
NumSensorFields == 12 \* the 12 entries of sensor_data
Threshold == 5        \* 0.5, in tenths
NumOutputs == 3       \* output[0], output[1], output[2]
Ground == 500         \* Dino.original_rect_bottom, initial_y_position
JumpSpeed == 32       \* jump_velocity = -16: 16 upwards, in halves
Gravity == 1          \* gravity = 0.5, in halves

\* genome.fitness is None until the evaluator assigns it
None == -1
\* no genome (get_best_genome returns None)
NoGenome == 0

VARIABLES
    pc,                \* position of the main program
    population,        \* ai_controller.population.population: id -> fitness
    nextId,            \* next genome id the library hands out
    generation,        \* ai_controller.generation
    networks,          \* ai_controller.networks: ids with a cached network
    generation_count,  \* dino_game.main's generation_count
    gensRun,           \* generations population.run has completed
    dinos,             \* run_dino_game_generation's dinos: id -> Dino
    clock,             \* pygame.time.get_ticks()
    popFile,           \* tests/test_<prefix>_population.pkl ({} = no file)
    genomeFile,        \* tests/test_<prefix>_genome.pkl ({} = no file)
    checkpoints,       \* the ..._last-gen-count_<g>.pkl files written
    generation_start_time, \* run_dino_game_generation's generation_start_time
    genes,             \* genome.nodes / genome.connections sizes: id -> sizes
    initial_node_count, \* ai_controller._initial_node_count
    initial_conn_count, \* ai_controller._initial_conn_count
    args,              \* what ConfigManager parsed
    last,              \* outcome of the last setup / controller call
    genome_id,         \* argument of the last ai_controller.get_action call
    sensor_data,       \* DinoNetwork.get_action: kind of each sensor field
    activation,        \* DinoNetwork.get_action: outcome of net.activate
    ret,               \* DinoNetwork.get_action: what the call produced
    dino               \* one Dino object: its jump and duck attributes

gameVars == <<pc, population, nextId, generation, networks, generation_count,
              gensRun, dinos, clock, popFile, genomeFile, checkpoints,
              generation_start_time, genes, initial_node_count,
              initial_conn_count, args, last, genome_id>>
netVars == <<sensor_data, activation, ret>>
dinoVars == <<dino>>
vars == <<gameVars, netVars, dinoVars>>

Ids(pop) == DOMAIN pop

\* neat.Population(config): pop_size new genomes, none evaluated
FreshPopulation(first) == [g \in first .. (first + PopSize - 1) |-> None]

\* len(genome.nodes) and len(genome.connections) of a genome: a new genome
\* has the output nodes and every input wired to every output; a genome
\* that went through an add-node mutation has one node and two
\* connections more.
BaseGenome == [nodes |-> NumOutputs, conns |-> NumSensorFields * NumOutputs]
GrownGenome == [nodes |-> BaseGenome.nodes + 1, conns |-> BaseGenome.conns + 2]
GenomeSizes == {BaseGenome, GrownGenome}
FreshGenes(ids) == [g \in ids |-> BaseGenome]

\* sum(len(genome.nodes) for genome in population.values())
RECURSIVE SumOver(_, _, _)
SumOver(gn, todo, field) ==
    IF todo = {} THEN 0
    ELSE LET g == CHOOSE x \in todo : TRUE
         IN (IF field = "nodes" THEN gn[g].nodes ELSE gn[g].conns)
            + SumOver(gn, todo \ {g}, field)

SumNodes(gn) == SumOver(gn, DOMAIN gn, "nodes")
SumConns(gn) == SumOver(gn, DOMAIN gn, "conns")

\* ------------------------------------------------------- ConfigManager
\* What ConfigManager._parse_arguments leaves: whether --config was given,
\* whether the user asked for a fresh start (--fresh, or 'new' at the
\* prompt), and whether the selected species names a population file and a
\* best-genome file.
ArgsSet ==
    {a \in [config : BOOLEAN, fresh : BOOLEAN, population_path : BOOLEAN,
            genome_path : BOOLEAN] :
        ~a.config => (~a.population_path /\ ~a.genome_path)}

FreshArgs ==
    [config |-> FALSE, fresh |-> TRUE, population_path |-> FALSE,
     genome_path |-> FALSE]

\* ConfigManager.start_fresh: --fresh / 'new', or no --config at all
should_start_fresh(a) == a.fresh \/ ~a.config

\* ConfigManager.get_training_paths: the population path, or None
population_path(a) == a.config /\ ~should_start_fresh(a) /\ a.population_path

\* --------------------------------------------------------- AIController
\* AIController.get_best_genome: first genome, in dictionary order, with
\* the greatest non-None fitness above -1; None when there is none.
RECURSIVE BestFrom(_, _, _, _)
BestFrom(pop, todo, best_genome, best_fitness) ==
    IF todo = {} THEN best_genome
    ELSE LET g == CHOOSE x \in todo : \A y \in todo : x <= y
         IN IF pop[g] # None /\ pop[g] > best_fitness
            THEN BestFrom(pop, todo \ {g}, g, pop[g])
            ELSE BestFrom(pop, todo \ {g}, best_genome, best_fitness)

\* get_best_genome with best_fitness starting at 0
get_best_genome_from_zero(pop) == BestFrom(pop, Ids(pop), NoGenome, 0)

get_best_genome(pop) == BestFrom(pop, Ids(pop), NoGenome, -1)

\* pickle.dump(self.population): the genomes with their fitness and genes;
\* no attribute of the controller is written.  evaluated, generation_count
\* and generation are history fields: the genomes whose dino has died in
\* the generation under evaluation, the game's generation count and the
\* controller's generation counter, when the file was written.
Snapshot(pop, gn, dn) ==
    [corrupt |-> FALSE, fitness |-> pop, genes |-> gn,
     evaluated |-> {g \in DOMAIN dn : dn[g].dead},
     generation_count |-> generation_count, generation |-> generation]

\* a file pickle.load cannot read
CorruptFile ==
    [corrupt |-> TRUE, fitness |-> <<>>, genes |-> <<>>, evaluated |-> {},
     generation_count |-> 0, generation |-> 0]

\* AIController.save_best_genome: writes only when there is a best genome
save_best_genome(pop, old) ==
    IF get_best_genome(pop) # NoGenome
    THEN {[id |-> get_best_genome(pop), fitness |-> pop[get_best_genome(pop)]]}
    ELSE old

\* Dino(): alive.  updates and assigned are history fields: the times the
\* game loop updated the dino and asked its network for an action, and the
\* times the loop assigned its genome's fitness.
NewDino == [dead |-> FALSE, death_time |-> 0, updates |-> 0, assigned |-> 0]

\* the loops without their `if not dino.dead` test
LivingIgnoringDead == DOMAIN dinos

\* the dinos the game loop still updates
Living == {g \in DOMAIN dinos : ~dinos[g].dead}

\* the checkpoint file save_progress writes for generation gen (a file of
\* the same generation is overwritten).  The fields
\* generation_count and living are history: the game's generation count and
\* the living dinos when the file was written.
Checkpoint(gen) ==
    [generation |-> gen, generation_count |-> generation_count,
     living |-> Living]

\* TrainingManager.save_progress(ai_controller, gen)
save_progress(gen) ==
    /\ popFile' = {Snapshot(population, genes, dinos)}
    /\ genomeFile' = save_best_genome(population, genomeFile)
    /\ checkpoints' = IF gen % CheckpointEvery = 0
                      THEN {c \in checkpoints : c.generation # gen}
                               \cup {Checkpoint(gen)}
                      ELSE checkpoints

NoDinos ==
    [g \in {} |-> [dead |-> FALSE, death_time |-> 0, updates |-> 0,
                   assigned |-> 0]]

\* ------------------------------------------------------------------- Init
\* AIController.__init__ in a new process (the files are not touched)
InitController ==
    /\ population = FreshPopulation(1)       \* AIController.__init__
    /\ nextId = PopSize + 1
    /\ generation = 0
    /\ networks = {}
    /\ generation_count = 0
    /\ gensRun = 0
    /\ dinos = NoDinos
    /\ clock = 0
    /\ genomeFile = {}
    /\ checkpoints = {}
    /\ generation_start_time = 0
    /\ genes = FreshGenes(Ids(population))
    /\ initial_node_count = SumNodes(genes)
    /\ initial_conn_count = SumConns(genes)
    /\ last = "none"
    /\ genome_id = NoGenome

\* a population file an earlier training left: PopSize genomes, saved
\* before their first evaluation or after it, all of one size
SavedFiles ==
    {[corrupt |-> FALSE, fitness |-> [g \in 1 .. PopSize |-> f],
      genes |-> [g \in 1 .. PopSize |-> size], evaluated |-> {},
      generation_count |-> IF f = None THEN 0 ELSE 1, generation |-> 0] :
        f \in {None, 1}, size \in GenomeSizes}

\* the population file a start may find: none, an unreadable one, or one
\* an earlier training left
InitialFiles == {{}, {CorruptFile}} \cup {{s} : s \in SavedFiles}

InitGame ==
    /\ pc = "setup"
    /\ InitController
    /\ args \in ArgsSet
    /\ popFile \in InitialFiles

\* the images of a Dino, and the heights their files may have
Sprites == {"run", "jump", "duck"}
SpriteSizes == [Sprites -> {ShortSprite, TallSprite}]

\* Dino.__init__ with sprites of the heights sizes: on the ground, running.
\* rect is kept as its bottom and height.  ticks and applied are history
\* fields: the update_jump calls of the current or last jump, and how many
\* of them set the initial jump velocity.
Dino(sizes) ==
    [is_jumping |-> FALSE, is_ducking |-> FALSE, y_velocity |-> 0,
     bottom |-> Ground, height |-> sizes["run"], image |-> "run",
     sizes |-> sizes, ticks |-> 0, applied |-> 0]

\* no single Dino is under study
IdleDino == dino = Dino([k \in Sprites |-> TallSprite])

\* no DinoNetwork.get_action call is under way
IdleNet ==
    /\ sensor_data = <<>>
    /\ activation = [raises |-> FALSE, output |-> <<>>]
    /\ ret = "idle"

Init == InitGame /\ IdleNet /\ IdleDino

\* ---------------------------------------------------------------- actions
\* AIController.reset
reset ==
    /\ population' = FreshPopulation(nextId)
    /\ genes' = FreshGenes(Ids(FreshPopulation(nextId)))
    /\ nextId' = nextId + PopSize
    /\ generation' = 0
    /\ networks' = {}
    /\ initial_node_count' = SumNodes(FreshGenes(Ids(FreshPopulation(nextId))))
    /\ initial_conn_count' = SumConns(FreshGenes(Ids(FreshPopulation(nextId))))

\* AIController.load_population on a readable file s.  The class defines
\* the method twice; the second definition is the one bound to the name:
\* it replaces the population and nothing else.
load_population(s) ==
    /\ population' = s.fitness
    /\ genes' = s.genes
    /\ nextId' = (CHOOSE x \in DOMAIN s.fitness \cup {nextId - 1} :
                     \A y \in DOMAIN s.fitness \cup {nextId - 1} : y <= x) + 1
    /\ UNCHANGED <<generation, networks, initial_node_count,
                   initial_conn_count>>

ControllerUnchanged ==
    UNCHANGED <<population, genes, nextId, generation, networks,
                initial_node_count, initial_conn_count>>

\* TrainingManager.setup_training.  The species' population path is taken to
\* name the file save_progress writes.  vanished: the file is removed
\* between os.path.exists in setup_training and the one in load_population.
\* An exception here is outside main's try block and ends the process.
SetupTraining ==
    /\ pc = "setup"
    /\ IF should_start_fresh(args)
       THEN /\ reset
            /\ last' = "reset"
            /\ pc' = "game"
            /\ UNCHANGED popFile
       ELSE IF population_path(args) /\ popFile # {}
       THEN \E vanished \in BOOLEAN :
              IF vanished
              THEN /\ popFile' = {}
                   /\ reset                       \* "Starting fresh."
                   /\ last' = "load_False"
                   /\ pc' = "game"
              ELSE IF \E s \in popFile : s.corrupt
              THEN /\ ControllerUnchanged          \* pickle.load raises
                   /\ last' = "UnpicklingError"
                   /\ pc' = "crashed"
                   /\ UNCHANGED popFile
              ELSE /\ \E s \in popFile : load_population(s)
                   /\ last' = "load_True"
                   /\ pc' = "game"
                   /\ UNCHANGED popFile
       ELSE /\ ControllerUnchanged       \* self.best_genome_path is not set
            /\ last' = "AttributeError"
            /\ pc' = "crashed"
            /\ UNCHANGED popFile
    /\ UNCHANGED <<generation_count, gensRun, dinos, clock, genomeFile,
                   checkpoints, generation_start_time, args, genome_id, netVars,
                   dinoVars>>

\* dino_game.main up to the call of population.run
GameStart ==
    /\ pc = "game"
    /\ generation_count' = generation
    /\ pc' = "run"
    /\ UNCHANGED <<population, nextId, generation, networks, gensRun, dinos,
                   clock, popFile, genomeFile, checkpoints,
                   generation_start_time, genes, initial_node_count,
                   initial_conn_count, args, last, genome_id, netVars,
                   dinoVars>>

\* population.run calls eval_genomes: run_dino_game_generation up to its loop
StartGeneration ==
    /\ pc = "run"
    /\ gensRun < MaxGenerations
    /\ generation_count' = generation_count + 1
    /\ generation_start_time' = clock
    /\ dinos' = [g \in Ids(population) |-> NewDino]
    /\ pc' = "eval"
    /\ UNCHANGED <<population, nextId, generation, networks, gensRun, clock,
                   popFile, genomeFile, checkpoints, genes,
                   initial_node_count, initial_conn_count, args, last,
                   genome_id, netVars,
                   dinoVars>>

\* the first loop over the dinos: every dino that is not dead is updated
\* and asked for an action
Updated ==
    [g \in DOMAIN dinos |->
        IF g \in Living THEN [dinos[g] EXCEPT !.updates = @ + 1]
        ELSE dinos[g]]

\* the collision branch without the fitness assignment
CollideWithoutFitness(hit) ==
    /\ dinos' = [g \in DOMAIN dinos |->
                   IF g \in hit
                   THEN [Updated[g] EXCEPT !.dead = TRUE,
                                           !.death_time = clock]
                   ELSE Updated[g]]
    /\ population' = population

\* the collision branch for the dinos in hit: dead, death_time, fitness
Collide(hit) ==
    /\ dinos' = [g \in DOMAIN dinos |->
                   IF g \in hit
                   THEN [Updated[g] EXCEPT !.dead = TRUE,
                                           !.death_time = clock,
                                           !.assigned = @ + 1]
                   ELSE Updated[g]]
    /\ population' = [g \in Ids(population) |->
                        IF g \in hit THEN clock ELSE population[g]]

\* one iteration of the game loop with a living dino: every living dino is
\* updated and asked for an action (its network is cached), the obstacles
\* move, and the living dinos that hit an obstacle die and get their fitness
Frame ==
    /\ pc = "eval"
    /\ Living # {}
    /\ networks' = networks \cup (Living \cap Ids(population))
    /\ \E hit \in SUBSET Living :
          /\ clock >= MaxClock => hit = Living
          /\ Collide(hit)
    /\ clock' = IF clock < MaxClock THEN clock + 1 ELSE clock
    /\ UNCHANGED <<pc, nextId, generation, generation_count, gensRun, popFile,
                   genomeFile, checkpoints, generation_start_time, genes,
                   initial_node_count, initial_conn_count, args, last,
                   genome_id, netVars,
                   dinoVars>>

\* the iteration that finds no living dino: the loop ends, the best fitness
\* is printed (max over every genome's fitness, a TypeError on None) and
\* the periodic checkpoint is written
EndGeneration ==
    /\ pc = "eval"
    /\ Living = {}
    /\ IF \E g \in Ids(population) : population[g] = None
       THEN /\ pc' = "exiting"
            /\ UNCHANGED <<popFile, genomeFile, checkpoints>>
       ELSE /\ pc' = "post_eval"
            /\ IF generation_count % CheckpointEvery = 0
               THEN save_progress(generation_count)
               ELSE UNCHANGED <<popFile, genomeFile, checkpoints>>
    /\ UNCHANGED <<population, nextId, generation, networks, generation_count,
                   gensRun, dinos, clock, generation_start_time, genes,
                   initial_node_count, initial_conn_count, args, last,
                   genome_id, netVars,
                   dinoVars>>

\* the library's reproduction: some genomes are carried over with their
\* fitness, the others are new
LibReproduce ==
    \E kept \in SUBSET Ids(population) :
       LET fresh == nextId .. (nextId + PopSize - Cardinality(kept) - 1)
       IN /\ population' = [g \in kept \cup fresh |->
                               IF g \in kept THEN population[g] ELSE None]
          /\ nextId' = nextId + Cardinality(fresh)
          /\ \E size \in GenomeSizes :
                genes' = [g \in kept \cup fresh |->
                            IF g \in kept THEN genes[g] ELSE size]

\* neat.Population.run after eval_genomes returned: the next generation
LibNextGeneration ==
    /\ pc = "post_eval"
    /\ LibReproduce
    /\ gensRun' = gensRun + 1
    /\ dinos' = NoDinos
    /\ pc' = "run"
    /\ UNCHANGED <<generation, networks, generation_count, clock, popFile,
                   genomeFile, checkpoints, generation_start_time,
                   initial_node_count, initial_conn_count, args, last,
                   genome_id, netVars,
                   dinoVars>>

\* population.run returns after n generations: final display, waiting loop
RunReturns ==
    /\ pc = "run"
    /\ gensRun = MaxGenerations
    /\ pc' = "final"
    /\ UNCHANGED <<population, nextId, generation, networks, generation_count,
                   gensRun, dinos, clock, popFile, genomeFile, checkpoints,
                   generation_start_time, genes, initial_node_count,
                   initial_conn_count, args, last, genome_id, netVars,
                   dinoVars>>

\* KeyboardInterrupt inside population.run: caught by dino_game.main, which
\* goes on to the final display (training_manager is set: no save there)
KeyboardInterrupt ==
    /\ pc \in {"run", "eval", "post_eval"}
    /\ pc' = "final"
    /\ UNCHANGED <<population, nextId, generation, networks, generation_count,
                   gensRun, dinos, clock, popFile, genomeFile, checkpoints,
                   generation_start_time, genes, initial_node_count,
                   initial_conn_count, args, last, genome_id, netVars,
                   dinoVars>>

\* pygame.QUIT in the game loop: pygame.quit(); quit() raises SystemExit
QuitEvent ==
    /\ pc = "eval"
    /\ pc' = "exiting"
    /\ UNCHANGED <<population, nextId, generation, networks, generation_count,
                   gensRun, dinos, clock, popFile, genomeFile, checkpoints,
                   generation_start_time, genes, initial_node_count,
                   initial_conn_count, args, last, genome_id, netVars,
                   dinoVars>>

\* pygame.QUIT (or a KeyboardInterrupt) in the final waiting loop
CloseWindow ==
    /\ pc = "final"
    /\ pc' = "exiting"
    /\ UNCHANGED <<population, nextId, generation, networks, generation_count,
                   gensRun, dinos, clock, popFile, genomeFile, checkpoints,
                   generation_start_time, genes, initial_node_count,
                   initial_conn_count, args, last, genome_id, netVars,
                   dinoVars>>

\* main.py's finally: training_manager.save_progress(ai, ai.generation)
FinalSave ==
    /\ pc = "exiting"
    /\ save_progress(generation)
    /\ pc' = "done"
    /\ UNCHANGED <<population, nextId, generation, networks, generation_count,
                   gensRun, dinos, clock, generation_start_time, genes,
                   initial_node_count, initial_conn_count, args, last,
                   genome_id, netVars,
                   dinoVars>>

\* ------------------------------------------------------------ DinoNetwork
\* A sensor_data entry: a number, absent from the dictionary, or a value
\* float() rejects.
FieldKinds == {"num", "missing", "str"}

BadFields(sd) == {i \in DOMAIN sd : sd[i] # "num"}

SensorInputs ==
    {sd \in [1 .. NumSensorFields -> FieldKinds] :
        Cardinality(BadFields(sd)) <= MaxBadFields}

\* net.activate(inputs): raises, or returns the three outputs (in tenths)
OutVals == {0, 5, 6}
Outcomes ==
    {[raises |-> TRUE, output |-> <<>>]} \cup
    {[raises |-> FALSE, output |-> <<a, b, c>>] :
        a \in OutVals, b \in OutVals, c \in OutVals}

\* the float(sensor_data[...]) lines, in order, before the try block: the
\* first malformed entry raises
Convert(sd) ==
    IF BadFields(sd) = {} THEN "ok"
    ELSE LET i == CHOOSE x \in BadFields(sd) : \A y \in BadFields(sd) : x <= y
         IN IF sd[i] = "missing" THEN "KeyError" ELSE "ValueError"

\* the decision with the duck output tested first
DecideDuckFirst(out) ==
    IF out.raises THEN "run"
    ELSE IF out.output[2] > Threshold THEN "duck"
    ELSE IF out.output[1] > Threshold THEN "jump"
    ELSE IF out.output[3] > Threshold THEN "run"
    ELSE "None"

\* the try block: the decision on the outputs; "None" when the if/elif
\* chain falls through without a return
Decide(out) ==
    IF out.raises THEN "run"
    ELSE IF out.output[1] > Threshold THEN "jump"
    ELSE IF out.output[2] > Threshold THEN "duck"
    ELSE IF out.output[3] > Threshold THEN "run"
    ELSE "None"

\* DinoNetwork.get_action(sensor_data): an action, None, or the exception
\* that leaves the method
DinoNetwork_get_action(sd, out) ==
    IF Convert(sd) # "ok" THEN Convert(sd) ELSE Decide(out)

InitNet ==
    /\ pc = "setup"
    /\ InitController
    /\ args = FreshArgs
    /\ popFile = {}
    /\ sensor_data \in SensorInputs
    /\ activation \in Outcomes
    /\ ret = "pending"
    /\ IdleDino

CallGetAction ==
    /\ ret = "pending"
    /\ ret' = DinoNetwork_get_action(sensor_data, activation)
    /\ UNCHANGED <<gameVars, sensor_data, activation, dinoVars>>

NextNet == CallGetAction

SpecNet == InitNet /\ [][NextNet]_vars

Next ==
    \/ SetupTraining
    \/ GameStart
    \/ StartGeneration
    \/ Frame
    \/ EndGeneration
    \/ LibNextGeneration
    \/ RunReturns
    \/ KeyboardInterrupt
    \/ QuitEvent
    \/ CloseWindow
    \/ FinalSave

\* one run of the program
Spec == Init /\ [][Next]_vars

\* ------------------------------------------- AIController, call by call
\* The public methods of one AIController object, called in any order by
\* a caller that is not the game.
CtlFrame ==
    UNCHANGED <<pc, generation_count, gensRun, dinos, clock, genomeFile,
                checkpoints, generation_start_time, args, netVars, dinoVars>>

InitCtl ==
    /\ pc = "ctl"
    /\ InitController
    /\ args = FreshArgs
    /\ popFile \in InitialFiles
    /\ IdleNet
    /\ IdleDino

\* ai_controller.reset()
CtlReset ==
    /\ pc = "ctl"
    /\ nextId <= PopSize * MaxResets + 1
    /\ reset
    /\ last' = "reset"
    /\ genome_id' = NoGenome
    /\ UNCHANGED popFile
    /\ CtlFrame

\* sensor_data dictionaries the caller may pass: well formed, or with the
\* first entry absent or not a number
CallerInputs ==
    {[i \in 1 .. NumSensorFields |-> IF i = 1 THEN kind ELSE "num"] :
        kind \in FieldKinds}

\* what network.get_action(sensor_data) may produce
NetworkResults ==
    {DinoNetwork_get_action(sd, out) : sd \in CallerInputs, out \in Outcomes}

\* ai_controller.get_action(sensor_data, genome_id): a genome without a
\* cached network gets one when it is in the population and "run" is
\* returned when it is not; the cached network decides otherwise
CtlGetAction ==
    /\ pc = "ctl"
    /\ \E gid \in 1 .. (nextId - 1) :
          /\ genome_id' = gid
          /\ IF gid \notin networks
             THEN IF gid \in Ids(population)
                  THEN /\ networks' = networks \cup {gid}
                       /\ last' \in NetworkResults
                  ELSE /\ networks' = networks
                       /\ last' = "run"
             ELSE /\ networks' = networks
                  /\ last' \in NetworkResults
    /\ UNCHANGED <<population, genes, nextId, generation, initial_node_count,
                   initial_conn_count, popFile>>
    /\ CtlFrame

\* ai_controller.save_population(filename)
CtlSavePopulation ==
    /\ pc = "ctl"
    /\ popFile' = {Snapshot(population, genes, dinos)}
    /\ last' = "saved"
    /\ genome_id' = NoGenome
    /\ ControllerUnchanged
    /\ CtlFrame

\* ai_controller.load_population(filename): False when there is no file,
\* the exception of pickle.load when the file cannot be read
CtlLoadPopulation ==
    /\ pc = "ctl"
    /\ IF popFile = {}
       THEN /\ ControllerUnchanged
            /\ last' = "load_False"
       ELSE IF \E s \in popFile : s.corrupt
       THEN /\ ControllerUnchanged
            /\ last' = "UnpicklingError"
       ELSE /\ \E s \in popFile : load_population(s)
            /\ last' = "load_True"
    /\ genome_id' = NoGenome
    /\ UNCHANGED popFile
    /\ CtlFrame

\* ai_controller.run_generation(): the counter is incremented; then
\* self.population.next_generation() raises AttributeError when the
\* installed neat.Population has no such method, and otherwise the
\* population is advanced, the cache emptied and self.network_stats, which
\* no code sets, raises AttributeError
CtlRunGeneration ==
    /\ pc = "ctl"
    /\ generation < MaxGenerations
    /\ generation' = generation + 1
    /\ \/ UNCHANGED <<population, genes, nextId, networks>>
       \/ LibReproduce /\ networks' = {}
    /\ last' = "AttributeError"
    /\ genome_id' = NoGenome
    /\ UNCHANGED <<initial_node_count, initial_conn_count, popFile>>
    /\ CtlFrame

NextCtl ==
    \/ CtlReset
    \/ CtlGetAction
    \/ CtlSavePopulation
    \/ CtlLoadPopulation
    \/ CtlRunGeneration

SpecCtl == InitCtl /\ [][NextCtl]_vars

\* ------------------------------------------------------------------ Dino
\* One Dino object under any sequence of update() calls and of the game
\* loop's action block.  Velocities are in halves of a pixel per tick.

\* rect.height = h: the top of a Rect stays where it is
SetHeight(d, h) == [d EXCEPT !.height = h, !.bottom = d.bottom - d.height + h]

\* rect.bottom += y_velocity: a Rect keeps integers, a half goes to one of
\* the two neighbouring integers
Moved(bottom, v) == {(2 * bottom + v) \div 2, (2 * bottom + v + 1) \div 2}

\* update_jump with gravity applied once per tick
update_jump_gravity_once(d) ==
    LET r == SetHeight(d, d.sizes[d.image])
        first == r.y_velocity = 0
        v == IF first THEN -JumpSpeed ELSE r.y_velocity + Gravity
    IN {IF b >= Ground
        THEN [r EXCEPT !.image = "jump", !.bottom = Ground,
                       !.is_jumping = FALSE, !.y_velocity = 0,
                       !.ticks = @ + 1,
                       !.applied = @ + (IF first THEN 1 ELSE 0)]
        ELSE [r EXCEPT !.image = "jump", !.bottom = b, !.y_velocity = v,
                       !.ticks = @ + 1,
                       !.applied = @ + (IF first THEN 1 ELSE 0)] :
        b \in Moved(r.bottom, v)}

\* Dino.update_jump: the results of one call
update_jump(d) ==
    LET r == SetHeight(d, d.sizes[d.image])
        first == r.y_velocity = 0
        v == (IF first THEN -JumpSpeed ELSE r.y_velocity + Gravity) + Gravity
    IN {IF b >= Ground
        THEN [r EXCEPT !.image = "jump", !.bottom = Ground,
                       !.is_jumping = FALSE, !.y_velocity = 0,
                       !.ticks = @ + 1,
                       !.applied = @ + (IF first THEN 1 ELSE 0)]
        ELSE [r EXCEPT !.image = "jump", !.bottom = b, !.y_velocity = v,
                       !.ticks = @ + 1,
                       !.applied = @ + (IF first THEN 1 ELSE 0)] :
        b \in Moved(r.bottom, v)}

\* Dino.update_duck_animation: the image changes when the animation counter
\* has run out
update_duck_animation(d) ==
    {[SetHeight(d, d.sizes["duck"]) EXCEPT !.bottom = Ground, !.image = i] :
        i \in {d.image, "duck"}}

\* Dino.update_run_animation: the image changes when the animation counter
\* has run out
update_run_animation(d) ==
    {[SetHeight(d, d.sizes[d.image]) EXCEPT !.bottom = Ground, !.image = i] :
        i \in {d.image, "run"}}

\* Dino.update
Dino_update(d) ==
    IF d.is_jumping THEN update_jump(d)
    ELSE IF d.is_ducking THEN update_duck_animation(d)
    ELSE update_run_animation(d)

\* what ai_controller.get_action may hand to the game loop
ActionResults == {"jump", "duck", "run", "None"}

\* the action block with a jump allowed while ducking
PerformActionJumpWhileDucking(d, action) ==
    IF action = "jump"
    THEN IF ~d.is_jumping
         THEN [d EXCEPT !.is_jumping = TRUE, !.ticks = 0, !.applied = 0]
         ELSE d
    ELSE IF action = "duck" /\ ~d.is_jumping
    THEN IF ~d.is_ducking THEN [d EXCEPT !.is_ducking = TRUE] ELSE d
    ELSE IF action = "run" THEN [d EXCEPT !.is_ducking = FALSE]
    ELSE d

\* the game loop's action block for one dino
PerformAction(d, action) ==
    IF action = "jump"
    THEN IF ~d.is_jumping /\ ~d.is_ducking
         THEN [d EXCEPT !.is_jumping = TRUE, !.ticks = 0, !.applied = 0]
         ELSE d
    ELSE IF action = "duck" /\ ~d.is_jumping
    THEN IF ~d.is_ducking THEN [d EXCEPT !.is_ducking = TRUE] ELSE d
    ELSE IF action = "run" THEN [d EXCEPT !.is_ducking = FALSE]
    ELSE d

InitDino ==
    /\ pc = "dino"
    /\ InitController
    /\ args = FreshArgs
    /\ popFile = {}
    /\ IdleNet
    /\ dino \in {Dino(sizes) : sizes \in SpriteSizes}

\* dino.update()
DinoUpdate ==
    /\ pc = "dino"
    /\ dino' \in Dino_update(dino)
    /\ UNCHANGED <<gameVars, netVars>>

\* the action block, for any action the controller may have returned
DinoAct ==
    /\ pc = "dino"
    /\ \E action \in ActionResults : dino' = PerformAction(dino, action)
    /\ UNCHANGED <<gameVars, netVars>>

NextDino == DinoUpdate \/ DinoAct

SpecDino == InitDino /\ [][NextDino]_vars

\* ------------------------------------------------------------- properties
Actions == {"jump", "duck", "run"}
Returned == ret \notin {"idle", "pending"}

\* the evaluation of a generation is over: its loop ended, or an interrupt
\* or a window close aborted it
EvaluationOver ==
    pc \in {"post_eval", "final", "exiting", "done"} /\ dinos # NoDinos

\* C6: when the evaluation phase of a generation has ended, every genome of
\* the population has a numeric fitness (never None) for the best-fitness
\* computation and the later phases to read.
C6_FitnessNeverNull ==
    EvaluationOver => \A g \in Ids(population) : population[g] # None

\* C7: the persisted population is never one in which only some genomes of
\* the generation under evaluation have been evaluated.
C7_NoPartialSave ==
    \A s \in popFile :
        s.evaluated = {} \/ s.evaluated = DOMAIN s.fitness

\* C8: for every well-formed sensor input and every output vector,
\* DinoNetwork.get_action returns one of "jump", "duck", "run".
C8_ActionIsEnumerated ==
    (Returned /\ BadFields(sensor_data) = {}) => ret \in Actions

\* C9: when a sensor field is missing or non-numeric, or the activation
\* raises, DinoNetwork.get_action catches the failure and returns "run".
C9_FailureReturnsRun ==
    (Returned /\ (BadFields(sensor_data) # {} \/ activation.raises))
        => ret = "run"

\* C12: after load_population has read a saved population, the genome ids
\* and the gene contents are those of the saved population and the
\* controller's generation counter equals the generation at which the
\* population was saved.
C12_RoundTrip ==
    (pc = "ctl" /\ last = "load_True") =>
        \A s \in popFile :
            /\ Ids(population) = DOMAIN s.fitness
            /\ genes = s.genes
            /\ generation = s.generation

\* C13: a missing population file and an unreadable one are reported to the
\* caller differently, and after setup the population is a fresh one only
\* when the user asked for a fresh start (--fresh, or 'new' at the prompt).
C13_FreshOnlyOnRequest ==
    /\ (pc \in {"game", "crashed"} /\ last = "load_False") => popFile = {}
    /\ (pc \in {"game", "crashed"} /\ last = "UnpicklingError") =>
            \E s \in popFile : s.corrupt
    /\ (pc = "game" /\ last \in {"reset", "load_False"}) => args.fresh

\* C14: after load_population succeeded the network cache is empty and the
\* tracked initial node and connection counts are those of the loaded
\* population.
C14_LoadResetsCache ==
    (pc = "ctl" /\ last = "load_True") =>
        /\ networks = {}
        /\ initial_node_count = SumNodes(genes)
        /\ initial_conn_count = SumConns(genes)

\* C19: a checkpoint file is written only after the evaluation loop of a
\* generation has ended with every dino dead, and only when the generation
\* count is a multiple of 10.
C19_CheckpointsAtBoundaries ==
    \A c \in checkpoints :
        c.living = {} /\ c.generation_count % CheckpointEvery = 0

\* C20: the fitness a genome gets when its dino collides is the time the
\* dino survived in this generation's episode (death time minus the start
\* of the generation).
C20_FitnessIsSurvivalTime ==
    \A g \in DOMAIN dinos :
        dinos[g].dead =>
            population[g] = dinos[g].death_time - generation_start_time

\* C21: the evaluation loop of a generation ends only when every dino is
\* dead, and when it has ended every genome handed to
\* run_dino_game_generation has had its fitness assigned exactly once, at
\* the tick of its dino's collision.
C21_LoopEndsAllEvaluated ==
    pc = "post_eval" =>
        /\ DOMAIN dinos = Ids(population)
        /\ \A g \in DOMAIN dinos :
              /\ dinos[g].dead
              /\ dinos[g].assigned = 1
              /\ population[g] = dinos[g].death_time

\* C21 witness: the loop of a generation has ended after two dinos died at
\* different ticks.
C21_Witness ==
    /\ pc = "post_eval"
    /\ \E g, h \in DOMAIN dinos : dinos[g].death_time < dinos[h].death_time

\* C22: within a generation a dead dino stays dead: it is not updated, not
\* asked for an action and not collision-checked again, and its genome's
\* fitness does not change.
C22_DeadStaysDead ==
    [][\A g \in DOMAIN dinos :
          (dinos[g].dead /\ g \in DOMAIN dinos') =>
              /\ dinos'[g] = dinos[g]
              /\ g \in Ids(population')
              /\ population'[g] = population[g]]_vars

\* C22 witness: a living dino has been updated more often than a dead one
\* of the same generation.
C22_Witness ==
    \E g, h \in DOMAIN dinos :
        /\ dinos[g].dead
        /\ ~dinos[h].dead
        /\ dinos[h].updates > dinos[g].updates

\* C23: after any sequence of actions and updates a dino is never jumping
\* and ducking at the same time.
C23_NeverJumpingAndDucking == ~(dino.is_jumping /\ dino.is_ducking)

\* C23 witness: a dino that ducked, stood up and is now in the air.
C23_Witness ==
    /\ dino.is_jumping
    /\ dino.bottom < Ground
    /\ dino.height = dino.sizes["duck"]
    /\ dino.sizes["duck"] # dino.sizes["run"]

\* the longest jump, in update ticks: one tick per half pixel of initial
\* speed, and two for the integer positions and a change of sprite height
MaxJumpTicks == JumpSpeed + 2

\* C24: every jump ends after a bounded number of update ticks with the
\* dino at its ground position, is_jumping false and y_velocity 0; the
\* initial jump velocity is applied exactly once per jump, and the velocity
\* is never 0 while the dino is in the air.
C24_JumpTerminates ==
    /\ dino.ticks <= MaxJumpTicks
    /\ (dino.is_jumping /\ dino.ticks >= 1) =>
            /\ dino.y_velocity # 0
            /\ dino.bottom < Ground
            /\ dino.applied = 1
    /\ ~dino.is_jumping =>
            /\ dino.y_velocity = 0
            /\ dino.bottom = Ground
            /\ dino.ticks >= 1 => dino.applied = 1

\* C24 witness: a dino back on the ground after a jump of the usual length.
C24_Witness ==
    /\ ~dino.is_jumping
    /\ dino.ticks > JumpSpeed
    /\ dino.applied = 1

\* C25: on the three outputs DinoNetwork.get_action decides by fixed
\* priority: "jump" whenever output 0 is above 0.5, "duck" when output 0 is
\* not and output 1 is, "run" when only output 2 is.
C25_FixedPriority ==
    (Returned /\ BadFields(sensor_data) = {} /\ ~activation.raises) =>
        LET out == activation.output
        IN /\ out[1] > Threshold => ret = "jump"
           /\ (out[1] <= Threshold /\ out[2] > Threshold) => ret = "duck"
           /\ (out[1] <= Threshold /\ out[2] <= Threshold
                  /\ out[3] > Threshold) => ret = "run"

\* C25 witness: a call that returned "jump" with all three outputs above
\* the threshold.
C25_Witness ==
    /\ ret = "jump"
    /\ \A i \in 1 .. NumOutputs : activation.output[i] > Threshold

\* C26: the controller's generation counter agrees with the game's
\* generation_count after every generation, and the generation main passes
\* to the final save_progress is the starting generation plus the number of
\* generations evaluated in the run.
C26_GenerationCountersAgree ==
    /\ pc = "post_eval" => generation = generation_count
    /\ pc = "exiting" => generation \in {gensRun, generation_count}

\* C27: every path through TrainingManager.setup_training ends normally,
\* with the loaded population or a freshly reset one; only a population
\* file that pickle cannot read ends it with an exception.
C27_SetupEndsNormally ==
    /\ pc = "crashed" => last = "UnpicklingError"
    /\ pc = "game" => last \in {"reset", "load_True", "load_False"}

\* C28: each call of AIController.run_generation completes normally,
\* increments the controller's generation counter by exactly one, advances
\* the population to its next generation and leaves the network cache
\* empty.
C28_RunGenerationCompletes ==
    [][(pc = "ctl" /\ generation' # generation) =>
          /\ last' = "run_generation"
          /\ generation' = generation + 1
          /\ networks' = {}]_vars

\* C29: AIController.get_action with a genome id that is not in the
\* current population returns "run" and leaves the network cache
\* unchanged; with an id in the population it builds the genome's network
\* when none is cached and leaves the cache as it is otherwise.
C29_GetActionCache ==
    [][(pc = "ctl" /\ genome_id' # NoGenome) =>
          IF genome_id' \in Ids(population)
          THEN networks' = networks \cup {genome_id'}
          ELSE last' = "run" /\ networks' = networks]_vars

\* C30: get_best_genome returns a genome whose fitness is the maximum over
\* the genomes of the population that have a fitness, a fitness of 0
\* included, and None exactly when no genome has a fitness;
\* save_best_genome then writes no file.
C30_BestGenome ==
    LET best == get_best_genome(population)
        scored == {g \in Ids(population) : population[g] # None}
    IN /\ best = NoGenome <=> scored = {}
       /\ best # NoGenome =>
             /\ best \in scored
             /\ \A g \in scored : population[g] <= population[best]
       /\ scored = {} =>
             save_best_genome(population, genomeFile) = genomeFile
       /\ scored # {} =>
             save_best_genome(population, genomeFile)
                 = {[id |-> best, fitness |-> population[best]]}
       /\ \A f \in genomeFile : f.fitness # None

\* C30 witness: the final save wrote a best genome of fitness 0 while
\* another genome had no fitness.
C30_Witness ==
    /\ pc = "done"
    /\ \E f \in genomeFile : f.fitness = 0 /\ f.id = get_best_genome(population)
    /\ \E g \in Ids(population) : population[g] = None

====
